---- MODULE Spec2Model ----
(***************************************************************************)
(* The "usage" plugin of the volcano scheduler                             *)
(* (pkg/scheduler/plugins/usage/usage.go): configuration resolution in     *)
(* New and OnSessionOpen, the one-time bootstrap gated by source.Period,   *)
(* and the predicate and node-order callbacks the session invokes.         *)
(*                                                                         *)
(* Numbers.  Utilizations and thresholds are float64 in the code; here     *)
(* they are whole percentages.  A score is kept as an exact fraction       *)
(* [num, den] built step by step as the code builds it, so no rounding is  *)
(* introduced by the model.                                                *)
(***************************************************************************)
EXTENDS Integers, Sequences, FiniteSets, TLC

VARIABLES
    Period,        \* source.Period, the process-wide sampling-period indicator
    up,            \* the usagePlugin instance of the current session
    cacheKind,     \* dynamic type behind ssn.GetCache()
    cacheNodes,    \* schedulerCache.Nodes: node name -> *NodeInfo (Nil when no entry)
    NodeList,      \* ssn.NodeList: sequence of [Name, ResourceUsage]
    predicateFns,  \* plugin names registered through ssn.AddPredicateFn
    nodeOrderFns,  \* plugin names registered through ssn.AddNodeOrderFn
    pc,            \* "idle" | "created" | "opened" | "panic"
    ret,           \* what the last callback invocation returned
    log,           \* what the current OnSessionOpen call did: subset of BootstrapSteps
    bootstrapped   \* TRUE once some OnSessionOpen call of this process ran the bootstrap

vars == <<Period, up, cacheKind, cacheNodes, NodeList, predicateFns,
          nodeOrderFns, pc, ret, log, bootstrapped>>

----------------------------------------------------------------------------
(* Bounds of the model *)

MaxNodes == 2      \* longest ssn.NodeList of the lifecycle specification

(* Program constants *)

DefaultWeight == 1
DefaultThreshold == 80
MaxNodeScore == 100     \* k8sFramework.MaxNodeScore
PluginName == "usage"
AVG == "average"

----------------------------------------------------------------------------
(* Dynamically typed argument values (interface{}).  t is the dynamic      *)
(* type: "none" stands for an absent key, "other" for any type that is     *)
(* neither int nor string (a float64, a bool, a list).                     *)

Absent == [t |-> "none", i |-> 0, s |-> ""]
OtherV == [t |-> "other", i |-> 0, s |-> ""]
IntV(n) == [t |-> "int", i |-> n, s |-> ""]
StrV(x) == [t |-> "string", i |-> 0, s |-> x]

\* the value under "thresholds": absent, a non-mapping, or a mapping with
\* optional sub-keys "cpu" and "mem"
NoSection == [t |-> "none", cpu |-> Absent, mem |-> Absent]
NotAMap == [t |-> "other", cpu |-> Absent, mem |-> Absent]
Section(c, m) == [t |-> "map", cpu |-> c, mem |-> m]

Arguments(w, ty, p, th) ==
    [weight |-> w, type |-> ty, period |-> p, thresholds |-> th]

----------------------------------------------------------------------------
(* Node utilization snapshots: api.NodeUsage with its two maps from a      *)
(* period label to an average utilization.                                 *)

Nil == [nil |-> TRUE]

EmptyMap == [l \in {} |-> 0]
Entry(l, v) == [k \in {l} |-> v]

NodeUsage(c, m) == [CPUUsageAvg |-> c, MEMUsageAvg |-> m]

\* Go map read m[k]: the zero value when the key is missing
Lookup(m, k) == IF k \in DOMAIN m THEN m[k] ELSE 0
\* the "exist" result of v, exist := m[k]
Exists(m, k) == k \in DOMAIN m

NodeInfo(name, usage) == [Name |-> name, ResourceUsage |-> usage]

----------------------------------------------------------------------------
(* Configuration resolution *)

\* framework.Arguments.GetInt: an integer under the key replaces the
\* current value; an absent key or a value of another type keeps it
GetInt(cur, v) == IF v.t = "int" THEN v.i ELSE cur

\* New: the defaults, then "usage.weight", "type" and "period"
New(args) ==
    [pluginArguments |-> args,
     weight          |-> GetInt(DefaultWeight, args.weight),
     usageType       |-> IF args.type.t = "string" THEN args.type.s ELSE AVG,
     cpuThresholds   |-> DefaultThreshold,
     memThresholds   |-> DefaultThreshold,
     SamplePeriods   |-> IF args.period.t = "string" THEN args.period.s ELSE "10m"]

\* value, _ := v.(int): the failed assertion yields the zero value of int
AssertInt(v) == IF v.t = "int" THEN v.i ELSE 0

\* the range loop over the "thresholds" mapping; a value that is no
\* mapping asserts to a nil map and the loop body never runs
Thresholds(p, th) ==
    IF th.t # "map" THEN p
    ELSE [p EXCEPT
            !.cpuThresholds = IF th.cpu.t # "none" THEN AssertInt(th.cpu) ELSE @,
            !.memThresholds = IF th.mem.t # "none" THEN AssertInt(th.mem) ELSE @]

----------------------------------------------------------------------------
(* The callbacks, as functions of the plugin and the node they are given *)

NoError == "nil"

\* predicateFn with ">=" written for ">"
predicateFnAtLeast(p, node) ==
    IF p.SamplePeriods # ""
    THEN IF Lookup(node.ResourceUsage.CPUUsageAvg, p.SamplePeriods) >= p.cpuThresholds
         THEN "cpu"
         ELSE IF Lookup(node.ResourceUsage.MEMUsageAvg, p.SamplePeriods) >= p.memThresholds
              THEN "mem"
              ELSE NoError
    ELSE NoError

\* predicateFn without the test for the empty sample period
predicateFnUnguarded(p, node) ==
    IF Lookup(node.ResourceUsage.CPUUsageAvg, p.SamplePeriods) > p.cpuThresholds
    THEN "cpu"
    ELSE IF Lookup(node.ResourceUsage.MEMUsageAvg, p.SamplePeriods) > p.memThresholds
         THEN "mem"
         ELSE NoError

\* predicateFn: the error it returns (NoError, or which check failed)
predicateFn(p, node) ==
    IF p.SamplePeriods # ""
    THEN IF Lookup(node.ResourceUsage.CPUUsageAvg, p.SamplePeriods) > p.cpuThresholds
         THEN "cpu"
         ELSE IF Lookup(node.ResourceUsage.MEMUsageAvg, p.SamplePeriods) > p.memThresholds
              THEN "mem"
              ELSE NoError
    ELSE NoError

Zero == [num |-> 0, den |-> 1]

\* nodeOrderFn reading the memory utilization where it should read the CPU's
nodeOrderFnMemory(p, node) ==
    IF p.SamplePeriods = "" THEN Zero
    ELSE IF ~Exists(node.ResourceUsage.CPUUsageAvg, p.SamplePeriods) THEN Zero
    ELSE LET memUsage == Lookup(node.ResourceUsage.MEMUsageAvg, p.SamplePeriods)
             score    == [num |-> 100 - memUsage, den |-> 100]
         IN  [num |-> score.num * (MaxNodeScore * p.weight), den |-> score.den]

\* nodeOrderFn: the score it returns (its error is always nil)
nodeOrderFn(p, node) ==
    IF p.SamplePeriods = "" THEN Zero
    ELSE IF ~Exists(node.ResourceUsage.CPUUsageAvg, p.SamplePeriods) THEN Zero
    ELSE LET cpuUsage == Lookup(node.ResourceUsage.CPUUsageAvg, p.SamplePeriods)
             score    == [num |-> 100 - cpuUsage, den |-> 100]
         IN  [num |-> score.num * (MaxNodeScore * p.weight), den |-> score.den]

----------------------------------------------------------------------------
(* The bootstrap copy *)

BootstrapSteps == {"Period", "GetMetricsData", "ResourceUsage"}

\* index of the first node of the list with no entry in the cache's
\* Nodes map (0 when every node has one): schedulerCache.Nodes[node.Name]
\* is then a nil *NodeInfo and reading its ResourceUsage field panics
FirstMissing(list, nodes) ==
    LET bad == {i \in 1..Len(list) : nodes[list[i].Name] = Nil}
    IN  IF bad = {} THEN 0 ELSE CHOOSE i \in bad : \A j \in bad : i <= j

\* the loop over ssn.NodeList, run up to (not including) index stop;
\* stop = 0 runs it to the end
CopyUsage(list, nodes, stop) ==
    [i \in 1..Len(list) |->
        IF stop = 0 \/ i < stop
        THEN [list[i] EXCEPT !.ResourceUsage = nodes[list[i].Name].ResourceUsage]
        ELSE list[i]]

\* GetMetricsData: the cache states the refresh can leave behind, out of
\* the candidates: per-node utilization is rewritten, no node is added or removed
GetMetricsData(candidates) ==
    IF cacheKind = "SchedulerCache"
    THEN {c \in candidates :
            \A n \in DOMAIN cacheNodes : (c[n] = Nil) <=> (cacheNodes[n] = Nil)}
    ELSE {cacheNodes}

----------------------------------------------------------------------------
(* The state machine *)

NodeNames == {"n1", "n2"}

NoPlugin == Nil
NoNodes == [n \in NodeNames |-> Nil]
NoCall == [fn |-> "none", node |-> 0, err |-> NoError, score |-> Zero]

\* a freshly started scheduler process: source.Period is the empty string
Init ==
    /\ Period = ""
    /\ up = NoPlugin
    /\ cacheKind \in {"SchedulerCache", "other"}
    /\ cacheNodes = NoNodes
    /\ NodeList = <<>>
    /\ predicateFns = {}
    /\ nodeOrderFns = {}
    /\ pc = "idle"
    /\ ret = NoCall
    /\ log = {}
    /\ bootstrapped = FALSE

\* The framework opens a session: the working node list is a snapshot,
\* the cache is whatever the informers made of it meanwhile, and the
\* plugin is built from its configured arguments by New.
OpenSession(argSet, lists, caches) ==
    /\ pc = "idle"
    /\ \E args \in argSet, list \in lists, nodes \in caches :
         /\ cacheKind = "other" => nodes = cacheNodes
         /\ up' = New(args)
         /\ NodeList' = list
         /\ cacheNodes' = nodes
    /\ pc' = "created"
    /\ ret' = NoCall
    /\ log' = {}
    /\ UNCHANGED <<Period, cacheKind, predicateFns, nodeOrderFns, bootstrapped>>

\* OnSessionOpen, whole: thresholds, bootstrap, registration.  A nil
\* dereference in the copy loop ends the call before registration.
OnSessionOpen(candidates) ==
    /\ pc = "created"
    /\ LET th   == up.pluginArguments.thresholds
           ok   == th.t # "none"
           boot == ok /\ Period = ""
       IN  /\ up' = IF ok THEN Thresholds(up, th) ELSE up
           /\ IF boot
              THEN /\ Period' = up.SamplePeriods
                   /\ bootstrapped' = TRUE
                   /\ \E refreshed \in GetMetricsData(candidates) :
                        /\ cacheNodes' = refreshed
                        /\ IF cacheKind = "SchedulerCache"
                           THEN LET stop == FirstMissing(NodeList, refreshed)
                                IN  /\ NodeList' = CopyUsage(NodeList, refreshed, stop)
                                    /\ pc' = IF stop = 0 THEN "opened" ELSE "panic"
                                    /\ log' = IF stop = 1 \/ NodeList = <<>>
                                              THEN {"Period", "GetMetricsData"}
                                              ELSE BootstrapSteps
                           ELSE /\ NodeList' = NodeList
                                /\ pc' = "opened"
                                /\ log' = {"Period", "GetMetricsData"}
              ELSE /\ pc' = "opened"
                   /\ log' = {}
                   /\ UNCHANGED <<Period, cacheNodes, NodeList, bootstrapped>>
    /\ predicateFns' = IF pc' = "opened" THEN predicateFns \cup {PluginName} ELSE predicateFns
    /\ nodeOrderFns' = IF pc' = "opened" THEN nodeOrderFns \cup {PluginName} ELSE nodeOrderFns
    /\ UNCHANGED <<cacheKind, ret>>

\* the session runs the registered predicate on node i of its list
CallPredicateFn(i) ==
    /\ pc = "opened"
    /\ PluginName \in predicateFns
    /\ i \in 1..Len(NodeList)
    /\ ret' = [fn |-> "predicateFn", node |-> i,
               err |-> predicateFn(up, NodeList[i]), score |-> Zero]
    /\ UNCHANGED <<Period, up, cacheKind, cacheNodes, NodeList, predicateFns,
                   nodeOrderFns, pc, log, bootstrapped>>

\* a node-order call that first refreshes the node's snapshot from the cache
CallNodeOrderFnRefreshing(i) ==
    /\ pc = "opened"
    /\ PluginName \in nodeOrderFns
    /\ i \in 1..Len(NodeList)
    /\ NodeList' = IF cacheNodes[NodeList[i].Name] # Nil
                   THEN [NodeList EXCEPT ![i].ResourceUsage =
                            cacheNodes[NodeList[i].Name].ResourceUsage]
                   ELSE NodeList
    /\ ret' = [fn |-> "nodeOrderFn", node |-> i,
               err |-> NoError, score |-> nodeOrderFn(up, NodeList'[i])]
    /\ UNCHANGED <<Period, up, cacheKind, cacheNodes, predicateFns,
                   nodeOrderFns, pc, log, bootstrapped>>

\* the session runs the registered node-order function on node i of its list
CallNodeOrderFn(i) ==
    /\ pc = "opened"
    /\ PluginName \in nodeOrderFns
    /\ i \in 1..Len(NodeList)
    /\ ret' = [fn |-> "nodeOrderFn", node |-> i,
               err |-> NoError, score |-> nodeOrderFn(up, NodeList[i])]
    /\ UNCHANGED <<Period, up, cacheKind, cacheNodes, NodeList, predicateFns,
                   nodeOrderFns, pc, log, bootstrapped>>

\* OnSessionClose does nothing; the framework then drops the session
OnSessionClose ==
    /\ pc = "opened"
    /\ up' = NoPlugin
    /\ NodeList' = <<>>
    /\ predicateFns' = {}
    /\ nodeOrderFns' = {}
    /\ pc' = "idle"
    /\ ret' = NoCall
    /\ log' = {}
    /\ UNCHANGED <<Period, cacheKind, cacheNodes, bootstrapped>>

----------------------------------------------------------------------------
(* Inputs of the session-lifecycle specification *)

LifeSections ==
    {NoSection, NotAMap} \cup
    {Section(c, m) : c \in {Absent, IntV(70), StrV("70")}, m \in {Absent, IntV(70)}}

LifeArgs ==
    {Arguments(Absent, Absent, p, th) : p \in {Absent, StrV("")}, th \in LifeSections}

LifeUsages ==
    {NodeUsage(EmptyMap, EmptyMap),
     NodeUsage(Entry("10m", 71), Entry("10m", 0)),
     NodeUsage(Entry("10m", 0), Entry("10m", 81))}

ListsOf(names, usages, max) ==
    UNION {[1..n -> {NodeInfo(nm, u) : nm \in names, u \in usages}] : n \in 0..max}

CachesOf(usages) ==
    {c \in [NodeNames -> {Nil} \cup {NodeInfo(nm, u) : nm \in NodeNames, u \in usages}] :
        \A n \in NodeNames : c[n] = Nil \/ c[n].Name = n}

LifeLists == ListsOf(NodeNames, LifeUsages, MaxNodes)
LifeCaches == CachesOf(LifeUsages)

Next ==
    \/ OpenSession(LifeArgs, LifeLists, LifeCaches)
    \/ OnSessionOpen(LifeCaches)
    \/ \E i \in 1..MaxNodes : CallPredicateFn(i)
    \/ \E i \in 1..MaxNodes : CallNodeOrderFn(i)
    \/ OnSessionClose

Spec == Init /\ [][Next]_vars

----------------------------------------------------------------------------
(* Inputs of the evaluation specification: every way of resolving the      *)
(* configuration, one node with every utilization around the thresholds.   *)

EvalValues == {Absent, IntV(-1), IntV(70), StrV("70")}

EvalSections ==
    {NoSection, NotAMap} \cup {Section(c, m) : c \in EvalValues, m \in EvalValues}

EvalArgs ==
    {Arguments(w, ty, p, th) :
        w \in {Absent, IntV(-1), IntV(10), StrV("10")},
        ty \in {Absent, StrV("max")},
        p \in {Absent, StrV(""), StrV("5m"), IntV(10)},
        th \in EvalSections}

Utils == {0, 70, 71, 100}
EvalMaps == {EmptyMap, Entry("", 100)} \cup {Entry("10m", v) : v \in Utils}
EvalUsages == {NodeUsage(c, m) : c \in EvalMaps, m \in EvalMaps}

EvalLists == {<<NodeInfo("n1", u)>> : u \in EvalUsages}
EvalCaches ==
    {[n \in NodeNames |->
        IF n = "n1" THEN NodeInfo(n, NodeUsage(Entry("10m", 100), Entry("10m", 100)))
        ELSE Nil]}

NextEval ==
    \/ OpenSession(EvalArgs, EvalLists, EvalCaches \cup {NoNodes})
    \/ OnSessionOpen(EvalCaches \cup {NoNodes})
    \/ \E i \in 1..MaxNodes : CallPredicateFn(i)
    \/ \E i \in 1..MaxNodes : CallNodeOrderFn(i)
    \/ OnSessionClose

SpecEval == Init /\ [][NextEval]_vars

----------------------------------------------------------------------------
(* Vocabulary of the properties *)

\* the last step of the session was a call of the named callback
Called(fn) == pc = "opened" /\ ret.fn = fn
\* the node that call was given
Node == NodeList[ret.node]
\* the step being taken is a call of OnSessionOpen
OpenStep == pc = "created" /\ pc' # "created"
\* a / b >= c / d for fractions with positive denominators
GEq(x, y) == x.num * y.den >= y.num * x.den
\* the verdict (TRUE = rejected) and the score as functions of the
\* configuration fields and one snapshot, and of nothing else
FilterOf(period, cpuT, memT, usage) ==
    IF period = "" THEN FALSE
    ELSE \/ Lookup(usage.CPUUsageAvg, period) > cpuT
         \/ Lookup(usage.MEMUsageAvg, period) > memT

ScoreOf(period, weight, usage) ==
    IF period = "" \/ ~Exists(usage.CPUUsageAvg, period) THEN Zero
    ELSE [num |-> (100 - usage.CPUUsageAvg[period]) * MaxNodeScore * weight, den |-> 100]

----------------------------------------------------------------------------
(* C1: when the "thresholds" mapping holds a non-integer under "cpu"       *)
(* (resp. "mem"), OnSessionOpen leaves cpuThresholds (resp. memThresholds) *)
(* at the value it had before the call.                                    *)
C1_NonIntegerKeepsThreshold ==
    [][OpenStep =>
         LET th == up.pluginArguments.thresholds
         IN  /\ (th.t = "map" /\ th.cpu.t \notin {"none", "int"})
                   => up'.cpuThresholds = up.cpuThresholds
             /\ (th.t = "map" /\ th.mem.t \notin {"none", "int"})
                   => up'.memThresholds = up.memThresholds]_vars

(* C2: over all sessions of one process, the bootstrap executes in at most *)
(* one OnSessionOpen call: once some call has run it, no later call does.  *)
C2_BootstrapAtMostOnce ==
    [][(OpenStep /\ bootstrapped) => log' = {}]_vars

(* C3: with a non-empty sample period the predicate rejects a node exactly *)
(* when its looked-up CPU utilization is strictly above cpuThresholds or   *)
(* its looked-up memory utilization is strictly above memThresholds.       *)
C3_RejectIffAboveThreshold ==
    (Called("predicateFn") /\ up.SamplePeriods # "") =>
        ((ret.err # NoError) <=>
            \/ Lookup(Node.ResourceUsage.CPUUsageAvg, up.SamplePeriods) > up.cpuThresholds
            \/ Lookup(Node.ResourceUsage.MEMUsageAvg, up.SamplePeriods) > up.memThresholds)

\* a node whose CPU utilization equals the configured threshold passes
C3_Witness ==
    /\ Called("predicateFn")
    /\ up.SamplePeriods # ""
    /\ up.pluginArguments.thresholds.cpu = IntV(70)
    /\ Exists(Node.ResourceUsage.CPUUsageAvg, up.SamplePeriods)
    /\ Lookup(Node.ResourceUsage.CPUUsageAvg, up.SamplePeriods) = up.cpuThresholds
    /\ ret.err = NoError

(* C4: for every resolved configuration, a node with neither a CPU nor a   *)
(* memory entry for the sample period passes the predicate and scores 0.   *)
C4_MissingEntryPassesAndScoresZero ==
    (/\ pc = "opened"
     /\ ret.fn # "none"
     /\ ~Exists(Node.ResourceUsage.CPUUsageAvg, up.SamplePeriods)
     /\ ~Exists(Node.ResourceUsage.MEMUsageAvg, up.SamplePeriods))
    => /\ ret.fn = "predicateFn" => ret.err = NoError
       /\ ret.fn = "nodeOrderFn" => ret.score.num = 0

(* C5: for every weight resolution can produce and a fixed period, a node  *)
(* with the lower CPU utilization scores at least as high as one with a    *)
(* higher CPU utilization.                                                 *)
C5_ScoreMonotone ==
    (/\ Called("nodeOrderFn")
     /\ up.SamplePeriods # ""
     /\ Exists(Node.ResourceUsage.CPUUsageAvg, up.SamplePeriods))
    => \A u2 \in Utils :
         Lookup(Node.ResourceUsage.CPUUsageAvg, up.SamplePeriods) < u2
            => GEq(ret.score,
                   nodeOrderFn(up, NodeInfo("n2",
                       NodeUsage(Entry(up.SamplePeriods, u2), EmptyMap))))

(* C6: with the empty sample period every predicate call passes and every  *)
(* node-order call returns 0, whatever the snapshot, thresholds and weight.*)
C6_EmptyPeriodPassesAndScoresZero ==
    (pc = "opened" /\ ret.fn # "none" /\ up.SamplePeriods = "") =>
        /\ ret.err = NoError
        /\ ret.score.num = 0

\* the predicate passed a fully loaded node under a negative threshold
C6_Witness ==
    /\ Called("predicateFn")
    /\ up.SamplePeriods = ""
    /\ up.cpuThresholds < 0
    /\ Node.ResourceUsage.CPUUsageAvg = Entry("10m", 100)

(* C7: with a non-empty sample period and a CPU entry u for it, the score  *)
(* is ((100 - u) / 100) * MaxNodeScore * weight with a nil error; u = 0    *)
(* gives MaxNodeScore * weight, u = 100 gives 0, and the memory entries    *)
(* do not change the score.                                                *)
C7_ScoreFormula ==
    (/\ Called("nodeOrderFn")
     /\ up.SamplePeriods # ""
     /\ Exists(Node.ResourceUsage.CPUUsageAvg, up.SamplePeriods))
    => LET u == Node.ResourceUsage.CPUUsageAvg[up.SamplePeriods]
       IN  /\ ret.err = NoError
           /\ ret.score.den > 0
           /\ ret.score.num * 100 = (100 - u) * MaxNodeScore * up.weight * ret.score.den
           /\ u = 0 => ret.score.num = MaxNodeScore * up.weight * ret.score.den
           /\ u = 100 => ret.score.num = 0
           /\ \A m \in EvalMaps :
                nodeOrderFn(up, [Node EXCEPT !.ResourceUsage.MEMUsageAvg = m]) = ret.score

\* an idle node with a memory reading, scored under weight 10
C7_Witness ==
    /\ Called("nodeOrderFn")
    /\ up.SamplePeriods = "10m"
    /\ up.weight = 10
    /\ Node.ResourceUsage = NodeUsage(Entry("10m", 0), Entry("10m", 71))
    /\ ret.score.num = 1000 * ret.score.den

(* C8: OnSessionOpen always runs to completion and registers both the      *)
(* predicate and the node-order callback.                                  *)
C8_AlwaysCompletesAndRegisters ==
    /\ pc # "panic"
    /\ pc = "opened" => (PluginName \in predicateFns /\ PluginName \in nodeOrderFns)

(* C9: OnSessionOpen touches the indicator, the refresh or a snapshot only *)
(* when there is a thresholds section and the indicator is empty on entry; *)
(* then the indicator becomes SamplePeriods, the refresh is called and,    *)
(* for a recognized cache, every node of the list ends with the cache's    *)
(* snapshot for its name (otherwise the snapshots are unchanged).  In the  *)
(* other case indicator and snapshots are unchanged.                       *)
C9_BootstrapFrame ==
    [][OpenStep =>
         LET boot == up.pluginArguments.thresholds.t # "none" /\ Period = ""
         IN  /\ log' # {} => boot
             /\ boot =>
                  /\ Period' = up.SamplePeriods
                  /\ {"Period", "GetMetricsData"} \subseteq log'
                  /\ cacheKind = "SchedulerCache" =>
                       \A i \in 1..Len(NodeList') :
                          /\ cacheNodes'[NodeList'[i].Name] # Nil
                          /\ NodeList'[i].ResourceUsage =
                                cacheNodes'[NodeList'[i].Name].ResourceUsage
                  /\ cacheKind # "SchedulerCache" => NodeList' = NodeList
             /\ ~boot => (Period' = Period /\ NodeList' = NodeList)]_vars

(* C10: the plugin's writes to its thresholds, to the indicator and to the *)
(* snapshots happen in steps that start with no callback registered; once  *)
(* the callbacks are registered, callback calls leave all three unchanged  *)
(* and return a value fixed by the configuration and the node's snapshot.  *)
C10_WritesBeforeRegistration ==
    [][/\ (pc \in {"created", "opened"} /\ pc' \in {"opened", "panic"}
              /\ <<up, Period, NodeList>> # <<up', Period', NodeList'>>)
          => (predicateFns = {} /\ nodeOrderFns = {})
       /\ (pc = "opened" /\ pc' = "opened") =>
            /\ UNCHANGED <<up, Period, NodeList>>
            /\ ret'.fn = "predicateFn" =>
                 (ret'.err # NoError) <=>
                    FilterOf(up.SamplePeriods, up.cpuThresholds, up.memThresholds,
                             NodeList[ret'.node].ResourceUsage)
            /\ ret'.fn = "nodeOrderFn" =>
                 ret'.score = ScoreOf(up.SamplePeriods, up.weight,
                                      NodeList[ret'.node].ResourceUsage)]_vars

\* a session whose OnSessionOpen ran the whole bootstrap, then a callback
C10_Witness ==
    /\ pc = "opened"
    /\ log = BootstrapSteps
    /\ ret.fn = "nodeOrderFn"
    /\ up.cpuThresholds = 70

====
